---- MODULE Spec2Model ----
(***************************************************************************)
(* A model of the breadth-first crawler of noorsheikh/web-crawler-app:     *)
(* CrawlerConfig, CrawlStats and WebCrawler (crawler_service.py) and the   *)
(* start endpoint that spawns a crawl thread (crawler_view.py).            *)
(*                                                                         *)
(* Strings are sequences of tokens.  A token holds none of the characters  *)
(* '.', '/', ':' except the delimiter tokens ".", "/", "//" and the scheme *)
(* tokens "http:", "https:", "mailto:", so that str.split("."), urlparse   *)
(* and urljoin can be computed on the token sequence.                      *)
(***************************************************************************)
EXTENDS Integers, Sequences, FiniteSets, TLC

\* ------------------------------------------------------------------ bounds
MaxDepthBound == 2      \* largest max_depth a configuration is given
MaxLinks == 2           \* largest number of <a href> elements on one page
MaxCrawlers == 1        \* crawler objects that can be constructed
MaxRequests == 2        \* requests the start endpoint receives
MaxCalls == 2           \* calls of crawl() on one crawler object

Crawlers == 1..MaxCrawlers

None == "None"          \* Python's None

\* ------------------------------------------------------------- the strings
EXAMPLE == <<"http:", "//", "example", ".", "com">>
PAGE1 == <<"http:", "//", "example", ".", "com", "/", "page1">>
FILE_PNG == <<"http:", "//", "example", ".", "com", "/", "file", ".", "PNG">>
OTHER_PNG == <<"http:", "//", "other", ".", "com", "/", "file", ".", "png">>
TEXT_HTML == <<"text", "/", "html">>

\* start URLs handed to crawl()
Seeds == {EXAMPLE, FILE_PNG, OTHER_PNG, TEXT_HTML}

HREF_PAGE2 == <<"/", "page2">>
HREF_MAILTO == <<"mailto:", "x">>
HREF_BAD == <<"http:", "//", "[">>

ValueError == <<"ValueError">>

\* ------------------------------------------------------------ urllib, str
Schemes == {"http:", "https:", "mailto:"}

RECURSIVE IndexOf(_, _, _)
\* the first position >= i of token t in s, 0 when there is none
IndexOf(s, t, i) ==
    IF i > Len(s) THEN 0
    ELSE IF s[i] = t THEN i
    ELSE IndexOf(s, t, i + 1)

RECURSIVE LastIndexOf(_, _, _)
\* the last position <= i of token t in s, 0 when there is none
LastIndexOf(s, t, i) ==
    IF i < 1 THEN 0
    ELSE IF s[i] = t THEN i
    ELSE LastIndexOf(s, t, i - 1)

\* urllib.parse.urlparse(url): the scheme, netloc and path components
urlparse(url) ==
    LET hasScheme == Len(url) > 0 /\ url[1] \in Schemes
        rest == IF hasScheme THEN Tail(url) ELSE url
        hasNetloc == Len(rest) > 0 /\ rest[1] = "//"
        afterSlashes == IF hasNetloc THEN Tail(rest) ELSE rest
        slash == IndexOf(afterSlashes, "/", 1)
        netloc == IF ~hasNetloc THEN <<>>
                  ELSE IF slash = 0 THEN afterSlashes
                  ELSE SubSeq(afterSlashes, 1, slash - 1)
        path == IF ~hasNetloc THEN rest
                ELSE IF slash = 0 THEN <<>>
                ELSE SubSeq(afterSlashes, slash, Len(afterSlashes))
    IN [scheme |-> IF hasScheme THEN url[1] ELSE "",
        netloc |-> netloc,
        path |-> path]

\* urllib.parse.urljoin(base, href) for an href that is absolute, or an
\* absolute path; ValueError for an href whose netloc has an unmatched "["
urljoin(base, href) ==
    LET b == urlparse(base)
        h == urlparse(href)
    IN IF IndexOf(h.netloc, "[", 1) # 0 THEN ValueError
       ELSE IF h.scheme # "" THEN href
       ELSE IF b.netloc # <<>> THEN <<b.scheme, "//">> \o b.netloc \o href
       ELSE href

\* str.startswith("http")
startswith_http(s) == Len(s) > 0 /\ s[1] \in {"http:", "https:"}

\* mimetypes.guess_extension(type): the extension of a MIME type; for
\* anything that is not a known MIME type None, written <<>> here, which
\* "not ext" treats as it treats the empty string
guess_extension(type) ==
    IF type = <<"text", "/", "html">> THEN <<".", "html">>
    ELSE IF type = <<"image", "/", "png">> THEN <<".", "png">>
    ELSE <<>>

\* url.split(".")[-1]
split_last(url) ==
    LET dot == LastIndexOf(url, ".", Len(url))
    IN SubSeq(url, dot + 1, Len(url))

\* str.lower() on one token
LowerToken(t) ==
    CASE t = "PNG" -> "png"
      [] t = "HTML" -> "html"
      [] OTHER -> t

\* str.lower()
lower(s) == [i \in 1..Len(s) |-> LowerToken(s[i])]

\* str(k) for the status codes that occur
str(k) ==
    CASE k = 0 -> "0"
      [] k = 200 -> "200"
      [] k = 204 -> "204"
      [] k = 404 -> "404"

\* ------------------------------------------------------------ environment
EXAMPLE_COM == <<"example", ".", "com">>
DOT_PNG == <<".", "png">>
DOT_HTML == <<".", "html">>

\* the domains and blacklist arguments a CrawlerConfig is built with
DomainChoices == {{}, {EXAMPLE_COM}}
BlacklistChoices == {{}, {DOT_PNG, DOT_HTML}}

\* status codes a response may carry
StatusCodes == {200, 204, 404}

\* the pages the web serves: the <title> of each (None when it has none)
\* and the href values of its <a> elements, in document order
PageCatalog ==
    {[title_tag |-> None, hrefs |-> <<>>],
     [title_tag |-> "Test Page", hrefs |-> <<PAGE1, HREF_PAGE2>>],
     [title_tag |-> "Test Page", hrefs |-> <<HREF_PAGE2, HREF_PAGE2>>],
     [title_tag |-> None, hrefs |-> <<EXAMPLE, HREF_MAILTO>>],
     [title_tag |-> None, hrefs |-> <<OTHER_PNG>>],
     [title_tag |-> None, hrefs |-> <<HREF_PAGE2, HREF_BAD>>],
     [title_tag |-> "Test Page", hrefs |-> <<PAGE1, HREF_PAGE2, OTHER_PNG>>]}

\* a response body: a page of at most MaxLinks links
Bodies == {body \in PageCatalog : Len(body.hrefs) <= MaxLinks}

\* what requests.get(url) may return: nothing for a URL without an http
\* scheme, for which it raises MissingSchema; a 204 has no content, and a
\* picture carries no links
Responses(url) ==
    IF ~startswith_http(url) THEN {}
    ELSE {r \in [status_code : StatusCodes, body : Bodies] :
            /\ r.status_code = 204 => r.body.hrefs = <<>>
            /\ url \in {FILE_PNG, OTHER_PNG} => r.body.hrefs = <<>>}

\* len(response.content), the body measured in elements
ContentLength(body) ==
    Len(body.hrefs) + (IF body.title_tag = None THEN 0 ELSE 1)

\* title_tag.get_text(strip=True) if title_tag else ""
TitleOf(body) == IF body.title_tag = None THEN "" ELSE body.title_tag

\* the record the cache of test_cache_hit_skips_network returns
CachedPage == [status |-> 200, size |-> 1234, title |-> "Cached Page"]

\* what the cache holds when a crawl starts: a record of the seed of the
\* test, and none of any other URL
CacheChoices == {EXAMPLE :> CachedPage}

VARIABLES
    pc,             \* per crawler: "absent", "idle", "running", "done", "raised"
    config,         \* per crawler: its CrawlerConfig
    start_url,      \* per crawler: the argument of the crawl() call
    queue,          \* per crawler: the deque of (url, depth) of crawl()
    visited,        \* per crawler: WebCrawler.visited
    stats,          \* per crawler: WebCrawler.stats, a CrawlStats
    fetched,        \* per crawler: the URLs requests.get was called with
    enqueued,       \* per crawler: every item put on the queue, in order
    dequeued,       \* per crawler: every item popped, with what became of it
    channel_layer,  \* what get_channel_layer() returns: None or a layer
    group,          \* the messages sent to the group "crawl_group"
    responses,      \* the requests to the start endpoint and their answers
    cache           \* django.core.cache.cache: the record kept for a URL

vars == <<pc, config, start_url, queue, visited, stats, fetched, enqueued,
          dequeued, channel_layer, group, responses, cache>>

\* ------------------------------------------------------------ CrawlerConfig
\* CrawlerConfig.__init__, were it to take blacklist for domains and domains
\* for blacklist
CrawlerConfig_swapped(max_depth, domains, blacklist) ==
    [max_depth |-> max_depth,
     allowed_domains |-> IF blacklist = {} THEN {} ELSE blacklist,
     blacklist |-> IF domains = {} THEN {} ELSE domains]

\* CrawlerConfig.__init__; the lists are sets here, of which the code uses
\* membership and emptiness only, and "x or []" maps the empty one to []
CrawlerConfig(max_depth, domains, blacklist) ==
    [max_depth |-> max_depth,
     allowed_domains |-> IF domains = {} THEN {} ELSE domains,
     blacklist |-> IF blacklist = {} THEN {} ELSE blacklist]

\* is_allowed_domain, were it without the test of line 70 for an empty list
is_allowed_domain_strict(cfg, url) ==
    urlparse(url).netloc \in cfg.allowed_domains

\* CrawlerConfig.is_allowed_domain
is_allowed_domain(cfg, url) ==
    IF cfg.allowed_domains = {} THEN TRUE
    ELSE urlparse(url).netloc \in cfg.allowed_domains

\* CrawlerConfig.is_blacklisted
is_blacklisted(cfg, url) ==
    LET guess == guess_extension(urlparse(url).path)
        ext == IF guess = <<>> THEN <<".">> \o split_last(url) ELSE guess
    IN lower(ext) \in cfg.blacklist

\* --------------------------------------------------------------- CrawlStats
\* CrawlStats.__init__
CrawlStats ==
    [total_urls |-> 0,
     errors |-> 0,
     status_code_counts |-> <<>>,
     domain_counts |-> <<>>,
     results |-> <<>>]

\* d[k] += 1 on a defaultdict(int)
Incr(d, k) ==
    IF k \in DOMAIN d THEN [d EXCEPT ![k] = @ + 1] ELSE (k :> 1) @@ d

\* record, were it to put the new record in front of the results
record_prepending(st, url, status_code, content_length, title) ==
    [total_urls |-> st.total_urls + 1,
     errors |-> IF ~(200 <= status_code /\ status_code < 300)
                THEN st.errors + 1 ELSE st.errors,
     status_code_counts |-> Incr(st.status_code_counts, status_code),
     domain_counts |-> Incr(st.domain_counts, urlparse(url).netloc),
     results |-> <<[url |-> url, status |-> status_code,
                    size |-> content_length, title |-> title]>>
                 \o st.results]

\* record, were it to count every status other than 200 as an error
record_counting_non_200(st, url, status_code, content_length, title) ==
    [total_urls |-> st.total_urls + 1,
     errors |-> IF status_code # 200 THEN st.errors + 1 ELSE st.errors,
     status_code_counts |-> Incr(st.status_code_counts, status_code),
     domain_counts |-> Incr(st.domain_counts, urlparse(url).netloc),
     results |-> Append(st.results,
                        [url |-> url, status |-> status_code,
                         size |-> content_length, title |-> title])]

\* CrawlStats.record
record(st, url, status_code, content_length, title) ==
    [total_urls |-> st.total_urls + 1,
     errors |-> IF ~(200 <= status_code /\ status_code < 300)
                THEN st.errors + 1 ELSE st.errors,
     status_code_counts |-> Incr(st.status_code_counts, status_code),
     domain_counts |-> Incr(st.domain_counts, urlparse(url).netloc),
     results |-> Append(st.results,
                        [url |-> url, status |-> status_code,
                         size |-> content_length, title |-> title])]

\* --------------------------------------------------------------- WebCrawler
\* the message broadcast_stats hands to group_send
StatsMessage(st) ==
    [type |-> "send_crawl_stats",
     stats_data |->
        [total_urls |-> st.total_urls,
         errors |-> st.errors,
         status_counts |->
            [s \in {str(k) : k \in DOMAIN st.status_code_counts} |->
                st.status_code_counts[
                    CHOOSE k \in DOMAIN st.status_code_counts : str(k) = s]],
         domain_counts |-> st.domain_counts]]

\* how one call of broadcast_stats can end: without a channel layer it
\* returns at once, with one group_send delivers the message or raises
BroadcastOutcomes ==
    IF channel_layer = None THEN {"no_layer"} ELSE {"sent", "raised"}

\* broadcast_stats, were it to hand the message to group_send twice
broadcast_stats_twice(grp, st, outcome) ==
    IF outcome = "sent"
    THEN Append(Append(grp, StatsMessage(st)), StatsMessage(st))
    ELSE grp

\* the group after one call of broadcast_stats that ends as outcome
broadcast_stats(grp, st, outcome) ==
    IF outcome = "sent" THEN Append(grp, StatsMessage(st)) ELSE grp

\* Admitted, were line 178 to leave out the test of the visited set
Admitted_without_visited(vis, cfg, item) ==
    ~(item.depth > cfg.max_depth)

\* line 178, negated: the popped item goes on to be processed
Admitted(vis, cfg, item) ==
    ~(item.url \in vis \/ item.depth > cfg.max_depth)

\* Skipped, were lines 182-184 to join the two tests with "or"
Skipped_either(cfg, url) ==
    ~is_allowed_domain(cfg, url) \/ is_blacklisted(cfg, url)

\* lines 182-184: the condition of the second continue
Skipped(cfg, url) ==
    ~is_allowed_domain(cfg, url) /\ is_blacklisted(cfg, url)

\* line 201: the condition under which the links of a page are followed
FollowsLinks(cfg, depth, status_code) ==
    depth < cfg.max_depth /\ status_code = 200

RECURSIVE ExtractLinks(_, _, _, _)
\* lines 202-205 from the i-th link on: the items appended to the queue and
\* whether urljoin raised, which ends the loop
ExtractLinks(current_url, hrefs, depth, i) ==
    IF i > Len(hrefs) THEN [items |-> <<>>, raised |-> FALSE]
    ELSE LET href == urljoin(current_url, hrefs[i])
         IN IF href = ValueError THEN [items |-> <<>>, raised |-> TRUE]
            ELSE LET rest == ExtractLinks(current_url, hrefs, depth, i + 1)
                     new == IF startswith_http(href)
                            THEN <<[url |-> href, depth |-> depth + 1]>>
                            ELSE <<>>
                 IN [items |-> new \o rest.items, raised |-> rest.raised]

\* status of a dequeued item for which no response was received
NoResponse == -1

\* Iteration, were visited an attribute of the class WebCrawler, one set for
\* all crawlers, and not one that line 156 gives every object
Iteration_class_visited(c, how, status_code, hrefs, q, vis, st, fet, grp, ended) ==
    /\ pc' = [pc EXCEPT ![c] = ended]
    /\ queue' = [queue EXCEPT ![c] = q]
    /\ visited' = [d \in DOMAIN visited |-> vis]
    /\ stats' = [stats EXCEPT ![c] = st]
    /\ fetched' = [fetched EXCEPT ![c] = fet]
    /\ enqueued' = [enqueued EXCEPT
                      ![c] = @ \o SubSeq(q, Len(queue[c]), Len(q))]
    /\ dequeued' = [dequeued EXCEPT
                      ![c] = Append(@, [url |-> Head(queue[c]).url,
                                        depth |-> Head(queue[c]).depth,
                                        how |-> how,
                                        status |-> status_code,
                                        hrefs |-> hrefs])]
    /\ group' = grp
    /\ UNCHANGED <<config, start_url, channel_layer, responses, cache>>

\* the state of crawler c after one iteration of the while loop of crawl:
\* how the iteration went and the status code and the links of the response,
\* if any, go into the log of dequeued items
Iteration(c, how, status_code, hrefs, q, vis, st, fet, grp, ended) ==
    /\ pc' = [pc EXCEPT ![c] = ended]
    /\ queue' = [queue EXCEPT ![c] = q]
    /\ visited' = [visited EXCEPT ![c] = vis]
    /\ stats' = [stats EXCEPT ![c] = st]
    /\ fetched' = [fetched EXCEPT ![c] = fet]
    /\ enqueued' = [enqueued EXCEPT
                      ![c] = @ \o SubSeq(q, Len(queue[c]), Len(q))]
    /\ dequeued' = [dequeued EXCEPT
                      ![c] = Append(@, [url |-> Head(queue[c]).url,
                                        depth |-> Head(queue[c]).depth,
                                        how |-> how,
                                        status |-> status_code,
                                        hrefs |-> hrefs])]
    /\ group' = grp
    /\ UNCHANGED <<config, start_url, channel_layer, responses, cache>>

\* lines 206-209: the except clause, entered with stats st and queue q; its
\* own broadcast_stats call is not guarded, so an exception of it leaves crawl
ExceptClause(c, how, status_code, hrefs, q, vis, st, fet, grp) ==
    LET st2 == record(st, Head(queue[c]).url, 0, 0, "ERROR")
    IN \E outcome \in BroadcastOutcomes :
          Iteration(c, how, status_code, hrefs, q, vis, st2, fet,
                    broadcast_stats(grp, st2, outcome),
                    IF outcome = "raised" THEN "raised" ELSE "running")

\* line 174: crawl(start_url) is entered
CrawlEnter(c) ==
    /\ pc[c] = "idle"
    /\ pc' = [pc EXCEPT ![c] = "running"]
    /\ queue' = [queue EXCEPT ![c] = <<[url |-> start_url[c], depth |-> 0]>>]
    /\ enqueued' = [enqueued EXCEPT
                      ![c] = Append(@, [url |-> start_url[c], depth |-> 0])]
    /\ UNCHANGED <<config, start_url, visited, stats, fetched, dequeued,
                   channel_layer, group, responses, cache>>

\* lines 177-179: the popped item is already visited or too deep
DropItem(c) ==
    /\ pc[c] = "running"
    /\ queue[c] # <<>>
    /\ ~Admitted(visited[c], config[c], Head(queue[c]))
    /\ Iteration(c, "dropped", NoResponse, <<>>, Tail(queue[c]), visited[c],
                 stats[c], fetched[c], group, "running")

\* SkipItem, were the filter to be applied before line 180 adds the URL to
\* the visited set
SkipItem_unvisited(c) ==
    LET item == Head(queue[c])
    IN /\ pc[c] = "running"
       /\ queue[c] # <<>>
       /\ Admitted(visited[c], config[c], item)
       /\ Skipped(config[c], item.url)
       /\ Iteration(c, "skipped", NoResponse, <<>>, Tail(queue[c]),
                    visited[c], stats[c], fetched[c], group,
                    "running")

\* lines 177-185: the popped item is admitted and then skipped by the filter
SkipItem(c) ==
    LET item == Head(queue[c])
    IN /\ pc[c] = "running"
       /\ queue[c] # <<>>
       /\ Admitted(visited[c], config[c], item)
       /\ Skipped(config[c], item.url)
       /\ Iteration(c, "skipped", NoResponse, <<>>, Tail(queue[c]),
                    visited[c] \cup {item.url}, stats[c], fetched[c], group,
                    "running")

\* lines 177-192, 206-209: requests.get, or the parsing of the response,
\* raises before anything is recorded
FetchRaises(c) ==
    LET item == Head(queue[c])
    IN /\ pc[c] = "running"
       /\ queue[c] # <<>>
       /\ Admitted(visited[c], config[c], item)
       /\ ~Skipped(config[c], item.url)
       /\ ExceptClause(c, "fetch_raised", NoResponse, <<>>, Tail(queue[c]),
                       visited[c] \cup {item.url}, stats[c],
                       Append(fetched[c], item.url), group)

\* FetchResponds, were line 205 to put the links at the left end of the deque
FetchResponds_appendleft(c) ==
    LET item == Head(queue[c])
    IN /\ pc[c] = "running"
       /\ queue[c] # <<>>
       /\ Admitted(visited[c], config[c], item)
       /\ ~Skipped(config[c], item.url)
       /\ \E response \in Responses(item.url),
             outcome \in BroadcastOutcomes \ {"raised"} :
            LET status_code == response.status_code
                body == response.body
                st1 == record(stats[c], item.url, status_code,
                              ContentLength(body), TitleOf(body))
                links == IF FollowsLinks(config[c], item.depth, status_code)
                         THEN ExtractLinks(item.url, body.hrefs, item.depth, 1)
                         ELSE [items |-> <<>>, raised |-> FALSE]
            IN /\ ~links.raised
               /\ Iteration(c, "responded", status_code, body.hrefs,
                            links.items \o Tail(queue[c]),
                            visited[c] \cup {item.url}, st1,
                            Append(fetched[c], item.url),
                            broadcast_stats(group, st1, outcome), "running")

\* lines 177-205: the whole try block runs without an exception
FetchResponds(c) ==
    LET item == Head(queue[c])
    IN /\ pc[c] = "running"
       /\ queue[c] # <<>>
       /\ Admitted(visited[c], config[c], item)
       /\ ~Skipped(config[c], item.url)
       /\ \E response \in Responses(item.url),
             outcome \in BroadcastOutcomes \ {"raised"} :
            LET status_code == response.status_code
                body == response.body
                st1 == record(stats[c], item.url, status_code,
                              ContentLength(body), TitleOf(body))
                links == IF FollowsLinks(config[c], item.depth, status_code)
                         THEN ExtractLinks(item.url, body.hrefs, item.depth, 1)
                         ELSE [items |-> <<>>, raised |-> FALSE]
            IN /\ ~links.raised
               /\ Iteration(c, "responded", status_code, body.hrefs,
                            Tail(queue[c]) \o links.items,
                            visited[c] \cup {item.url}, st1,
                            Append(fetched[c], item.url),
                            broadcast_stats(group, st1, outcome), "running")

\* lines 177-209: the response is recorded and then broadcast_stats (line
\* 199) raises, so that the except clause runs after the record of line 194
BroadcastRaises(c) ==
    LET item == Head(queue[c])
    IN /\ pc[c] = "running"
       /\ queue[c] # <<>>
       /\ Admitted(visited[c], config[c], item)
       /\ ~Skipped(config[c], item.url)
       /\ "raised" \in BroadcastOutcomes
       /\ \E response \in Responses(item.url) :
            LET status_code == response.status_code
                body == response.body
                st1 == record(stats[c], item.url, status_code,
                              ContentLength(body), TitleOf(body))
            IN ExceptClause(c, "broadcast_raised", status_code, body.hrefs,
                            Tail(queue[c]),
                            visited[c] \cup {item.url}, st1,
                            Append(fetched[c], item.url), group)

\* lines 177-209: the response is recorded and broadcast and then urljoin
\* (line 203) raises on a link, after the links before it were appended
UrljoinRaises(c) ==
    LET item == Head(queue[c])
    IN /\ pc[c] = "running"
       /\ queue[c] # <<>>
       /\ Admitted(visited[c], config[c], item)
       /\ ~Skipped(config[c], item.url)
       /\ \E response \in Responses(item.url),
             outcome \in BroadcastOutcomes \ {"raised"} :
            LET status_code == response.status_code
                body == response.body
                st1 == record(stats[c], item.url, status_code,
                              ContentLength(body), TitleOf(body))
                links == ExtractLinks(item.url, body.hrefs, item.depth, 1)
            IN /\ FollowsLinks(config[c], item.depth, status_code)
               /\ links.raised
               /\ ExceptClause(c, "urljoin_raised", status_code, body.hrefs,
                               Tail(queue[c]) \o links.items,
                               visited[c] \cup {item.url}, st1,
                               Append(fetched[c], item.url),
                               broadcast_stats(group, st1, outcome))

\* lines 176, 211: the queue is empty and crawl returns self.stats
CrawlReturn(c) ==
    /\ pc[c] = "running"
    /\ queue[c] = <<>>
    /\ pc' = [pc EXCEPT ![c] = "done"]
    /\ UNCHANGED <<config, start_url, queue, visited, stats, fetched,
                   enqueued, dequeued, channel_layer, group, responses,
                   cache>>

\* one step of the crawl of crawler c
CrawlStep(c) ==
    \/ CrawlEnter(c)
    \/ DropItem(c)
    \/ SkipItem(c)
    \/ FetchRaises(c)
    \/ FetchResponds(c)
    \/ BroadcastRaises(c)
    \/ UrljoinRaises(c)
    \/ CrawlReturn(c)

\* ---------------------------------------------------------- CrawlerViewSet
\* request.data: a function from the keys the JSON body holds to their
\* values; a max_depth value carries its JSON type
UrlValues == {<<>>, EXAMPLE}
DepthValues ==
    {[type |-> "int", value |-> 0], [type |-> "str", value |-> "1"],
     [type |-> "str", value |-> "abc"]}

Requests ==
    {u @@ d @@ f : u \in {<<>>} \cup {[url |-> v] : v \in UrlValues},
                   d \in {<<>>} \cup {[max_depth |-> v] : v \in DepthValues},
                   f \in {<<>>,
                          [domains |-> {EXAMPLE_COM}, blacklist |-> {DOT_PNG}]}}

\* dict.get(key, default)
Get(data, key, default) == IF key \in DOMAIN data THEN data[key] ELSE default

\* int(x): the number, or ValueError for a string that is no decimal literal
int(x) ==
    IF x.type = "int" THEN [raised |-> FALSE, value |-> x.value]
    ELSE IF x.value = "0" THEN [raised |-> FALSE, value |-> 0]
    ELSE IF x.value = "1" THEN [raised |-> FALSE, value |-> 1]
    ELSE IF x.value = "2" THEN [raised |-> FALSE, value |-> 2]
    ELSE [raised |-> TRUE, value |-> "ValueError"]

\* line 52: the default of blacklist
DefaultBlacklist ==
    {<<".", "jpg">>, <<".", "png">>, <<".", "css">>, <<".", "js">>,
     <<".", "pdf">>}

\* the answers of the endpoint
BadRequest == [status |-> 400, data |-> [error |-> "URL is required."]]
Ok == [status |-> 200, data |-> [message |-> "Crawl started."]]
InternalServerError ==
    [status |-> 500, data |-> [error |-> "Internal server error"]]
\* an exception that leaves start is answered by the framework
Unhandled == [status |-> 500, data |-> [exception |-> "ValueError"]]

\* the log of requests after data was answered with answer
Answer(data, answer) ==
    Append(responses, [data |-> data, answer |-> answer])

\* lines 66-67: CrawlerConfig(...) and WebCrawler(config) for crawler c
Construct(c, url, cfg) ==
    /\ pc' = [pc EXCEPT ![c] = "idle"]
    /\ config' = [config EXCEPT ![c] = cfg]
    /\ start_url' = [start_url EXCEPT ![c] = url]
    /\ queue' = [queue EXCEPT ![c] = <<>>]
    /\ visited' = [visited EXCEPT ![c] = {}]
    /\ stats' = [stats EXCEPT ![c] = CrawlStats]

\* CrawlerViewSet.start, lines 47-81, for one request: thread_starts tells
\* whether Thread.start() finds a thread to start
Start(data, thread_starts) ==
    LET url == Get(data, "url", <<>>)
        max_depth == int(Get(data, "max_depth", [type |-> "int", value |-> 2]))
        domains == Get(data, "domains", {})
        blacklist == Get(data, "blacklist", DefaultBlacklist)
        free == {c \in Crawlers : pc[c] = "absent"}
    IN IF max_depth.raised
       THEN /\ responses' = Answer(data, Unhandled)
            /\ UNCHANGED <<pc, config, start_url, queue, visited, stats,
                           fetched, enqueued, dequeued, channel_layer, group,
                           cache>>
       ELSE IF url = <<>>
       THEN /\ responses' = Answer(data, BadRequest)
            /\ UNCHANGED <<pc, config, start_url, queue, visited, stats,
                           fetched, enqueued, dequeued, channel_layer, group,
                           cache>>
       ELSE IF ~thread_starts
       THEN /\ responses' = Answer(data, InternalServerError)
            /\ UNCHANGED <<pc, config, start_url, queue, visited, stats,
                           fetched, enqueued, dequeued, channel_layer, group,
                           cache>>
       ELSE /\ free # {}
            /\ Construct(CHOOSE c \in free : \A d \in free : c <= d, url,
                         CrawlerConfig(max_depth.value, domains, blacklist))
            /\ responses' = Answer(data, Ok)
            /\ UNCHANGED <<fetched, enqueued, dequeued, channel_layer, group,
                           cache>>

\* a request arrives at the endpoint
Request ==
    /\ Len(responses) < MaxRequests
    /\ \E data \in Requests, thread_starts \in BOOLEAN :
          Start(data, thread_starts)

\* WebCrawler.__init__: one crawler built from a config, as in the module's
\* "typical usage", its caller about to call crawl(url)
Init ==
    /\ \E max_depth \in 0..MaxDepthBound, domains \in DomainChoices,
          blacklist \in BlacklistChoices :
         config = [c \in Crawlers |->
                      CrawlerConfig(max_depth, domains, blacklist)]
    /\ \E url \in Seeds : start_url = [c \in Crawlers |-> url]
    /\ pc = [c \in Crawlers |-> IF c = 1 THEN "idle" ELSE "absent"]
    /\ queue = [c \in Crawlers |-> <<>>]
    /\ visited = [c \in Crawlers |-> {}]
    /\ stats = [c \in Crawlers |-> CrawlStats]
    /\ fetched = [c \in Crawlers |-> <<>>]
    /\ enqueued = [c \in Crawlers |-> <<>>]
    /\ dequeued = [c \in Crawlers |-> <<>>]
    /\ channel_layer \in {None, "layer"}
    /\ group = <<>>
    /\ responses = <<>>
    /\ cache \in CacheChoices

Next == \E c \in Crawlers : CrawlStep(c)

Spec == Init /\ [][Next]_vars

\* the server before any request: no crawler exists
InitView ==
    /\ pc = [c \in Crawlers |-> "absent"]
    /\ config = [c \in Crawlers |-> CrawlerConfig(0, {}, {})]
    /\ start_url = [c \in Crawlers |-> <<>>]
    /\ queue = [c \in Crawlers |-> <<>>]
    /\ visited = [c \in Crawlers |-> {}]
    /\ stats = [c \in Crawlers |-> CrawlStats]
    /\ fetched = [c \in Crawlers |-> <<>>]
    /\ enqueued = [c \in Crawlers |-> <<>>]
    /\ dequeued = [c \in Crawlers |-> <<>>]
    /\ channel_layer \in {None, "layer"}
    /\ group = <<>>
    /\ responses = <<>>
    /\ cache = <<>>

NextView == Request \/ \E c \in Crawlers : CrawlStep(c)

SpecView == InitView /\ [][NextView]_vars

\* the calls of crawl() crawler c has seen: each puts one item of depth 0
\* on the queue, and no link does
Calls(c) ==
    Cardinality({i \in DOMAIN enqueued[c] : enqueued[c][i].depth = 0})

\* lines 148-157, 159: crawl() has returned and the caller calls it again
\* on the same object, whose visited and stats __init__ alone assigns
CrawlAgain(c) ==
    /\ pc[c] = "done"
    /\ Calls(c) < MaxCalls
    /\ pc' = [pc EXCEPT ![c] = "idle"]
    /\ \E url \in Seeds : start_url' = [start_url EXCEPT ![c] = url]
    /\ UNCHANGED <<config, queue, visited, stats, fetched, enqueued, dequeued,
                   channel_layer, group, responses, cache>>

NextReuse == \E c \in Crawlers : CrawlStep(c) \/ CrawlAgain(c)

\* one crawler object whose crawl() is called up to MaxCalls times
SpecReuse == Init /\ [][NextReuse]_vars

\* two crawlers, as two start commands leave them
Pair == {1, 2}

\* lines 65-71, twice: two requests for http://example.com were answered,
\* one with a max_depth of 1, a domain list and a blacklist, one with a
\* max_depth of 0 and without either; each has its own config and crawler,
\* and its thread is about to enter crawl
InitPair ==
    /\ config = <<CrawlerConfig(1, {EXAMPLE_COM}, {DOT_PNG, DOT_HTML}),
                  CrawlerConfig(0, {}, {})>>
    /\ start_url = [c \in Pair |-> EXAMPLE]
    /\ pc = [c \in Pair |-> "idle"]
    /\ queue = [c \in Pair |-> <<>>]
    /\ visited = [c \in Pair |-> {}]
    /\ stats = [c \in Pair |-> CrawlStats]
    /\ fetched = [c \in Pair |-> <<>>]
    /\ enqueued = [c \in Pair |-> <<>>]
    /\ dequeued = [c \in Pair |-> <<>>]
    /\ channel_layer = "layer"
    /\ group = <<>>
    /\ responses = <<>>
    /\ cache = <<>>

\* the threads of the two crawlers, interleaved iteration by iteration
NextPair == \E c \in Pair : CrawlStep(c)

SpecPair == InitPair /\ [][NextPair]_vars

\* the crawl thread of every crawler keeps taking its steps
FairSpec == Spec /\ \A c \in Crawlers : WF_vars(CrawlStep(c))

\* ------------------------------------------------------------------ claims
Range(s) == {s[i] : i \in DOMAIN s}
Last(s) == s[Len(s)]

\* the positions in the results of crawler c of the records of url
RecordsOf(c, url) ==
    {i \in DOMAIN stats[c].results : stats[c].results[i].url = url}

\* the items crawler c fetched: popped, admitted and not skipped
Processed(c) ==
    {i \in DOMAIN dequeued[c] :
        dequeued[c][i].how \notin {"dropped", "skipped"}}

\* the step pops an item of crawler c
Pops(c) == Len(dequeued'[c]) = Len(dequeued[c]) + 1

\* C1: in one crawl run requests.get is called at most once with any one
\* URL, however often the URL is enqueued, and never again after it failed.
C1_FetchAtMostOnce ==
    \A c \in Crawlers : \A i, j \in DOMAIN fetched[c] :
        fetched[c][i] = fetched[c][j] => i = j

\* a URL whose fetch raised was popped a second time and dropped
C1_Witness ==
    \E c \in Crawlers : \E i, j \in DOMAIN dequeued[c] :
        /\ i < j
        /\ dequeued[c][i].url = dequeued[c][j].url
        /\ dequeued[c][i].how = "fetch_raised"
        /\ dequeued[c][j].how = "dropped"
        /\ dequeued[c][j].depth <= config[c].max_depth
        /\ Len(fetched[c]) >= 2

\* C2: the results never hold two records of one URL, and every URL that
\* was popped, admitted and not skipped has exactly one record, whichever
\* of fetch, parsing, broadcast and link extraction fail for it.
C2_OneRecordPerUrl ==
    \A c \in Crawlers :
        /\ \A i, j \in DOMAIN stats[c].results :
              stats[c].results[i].url = stats[c].results[j].url => i = j
        /\ \A i \in Processed(c) :
              Cardinality(RecordsOf(c, dequeued[c][i].url)) = 1

C4_DepthBound ==
    \A c \in Crawlers :
        /\ \A i \in Processed(c) : dequeued[c][i].depth <= config[c].max_depth
        /\ \A i \in DOMAIN enqueued[c] :
              enqueued[c][i].depth <= config[c].max_depth
        /\ (pc[c] = "done" /\ config[c].max_depth = 0
                /\ start_url[c] \in Range(fetched[c]))
              => /\ Len(stats[c].results) = 1
                 /\ stats[c].results[1].url = start_url[c]

C6_TransportFailure ==
    [][\A c \in Crawlers :
         (Pops(c) /\ Last(dequeued'[c]).how = "fetch_raised") =>
            /\ stats'[c].results =
                  Append(stats[c].results,
                         [url |-> Head(queue[c]).url, status |-> 0,
                          size |-> 0, title |-> "ERROR"])
            /\ stats'[c].errors = stats[c].errors + 1
            /\ stats'[c].status_code_counts[0] =
                  (IF 0 \in DOMAIN stats[c].status_code_counts
                   THEN stats[c].status_code_counts[0] ELSE 0) + 1
            /\ enqueued'[c] = enqueued[c]
            /\ queue'[c] = Tail(queue[c])
            /\ pc'[c] = "running"]_vars

\* C7: children are enqueued only for a response of status 200 at a depth
\* below max_depth; a response of any other status is recorded once, with
\* its status, counts as an error iff the status is outside [200, 300), and
\* enqueues nothing.
C7_OnlyStatus200Enqueues ==
    [][\A c \in Crawlers : Pops(c) =>
         LET d == Last(dequeued'[c])
         IN /\ enqueued'[c] # enqueued[c] =>
                  (d.status = 200 /\ d.depth < config[c].max_depth)
            /\ d.status \notin {NoResponse, 200} =>
                  /\ Len(stats'[c].results) = Len(stats[c].results) + 1
                  /\ Last(stats'[c].results).url = d.url
                  /\ Last(stats'[c].results).status = d.status
                  /\ stats'[c].errors = stats[c].errors
                        + (IF 200 <= d.status /\ d.status < 300 THEN 0 ELSE 1)
                  /\ enqueued'[c] = enqueued[c]]_vars

\* C8: no failure of broadcast_stats and no exception raised while a URL is
\* processed leaves crawl: the loop is never abandoned by an exception.
C8_NeverAborts ==
    \A c \in Crawlers : pc[c] # "raised"

\* C9: every crawl that is entered ends: the queue becomes empty and crawl
\* returns its stats.
C9_Terminates ==
    \A c \in Crawlers : (pc[c] = "idle") ~> (pc[c] = "done" /\ queue[c] = <<>>)

\* C10: every request whose url is missing or empty is answered 400 "URL is
\* required.", whatever its other fields hold, and starts no crawl.
C10_MissingUrlIs400 ==
    /\ \A i \in DOMAIN responses :
          Get(responses[i].data, "url", <<>>) = <<>>
             => responses[i].answer = BadRequest
    /\ Cardinality({c \in Crawlers : pc[c] # "absent"})
          <= Cardinality({i \in DOMAIN responses :
                            Get(responses[i].data, "url", <<>>) # <<>>})

\* the positions in the log of the requests that carry a url
WithUrl == {i \in DOMAIN responses : Get(responses[i].data, "url", <<>>) # <<>>}

\* the positions in the log of the requests answered 200 "Crawl started."
Acknowledged == {i \in DOMAIN responses : responses[i].answer = Ok}

\* the crawlers that were constructed
Constructed == {c \in Crawlers : pc[c] # "absent"}

\* C11: a request that carries a url and for which no crawl is started is
\* answered 500 "Internal server error"; no thread is started and nothing is
\* fetched for it.
C11_ConstructionFailureIs500 ==
    /\ \A i \in WithUrl \ Acknowledged :
          responses[i].answer = InternalServerError
    /\ Cardinality(Constructed) = Cardinality(Acknowledged)

\* C12: a request that is acknowledged starts exactly one crawl, of the url
\* and with the config of the request, and the acknowledgment is returned
\* while that crawl has not yet run: no other crawler is touched, and the new
\* one has fetched nothing.
C12_StartsOneCrawlWithoutWaiting ==
    [][(Len(responses') = Len(responses) + 1 /\ Last(responses').answer = Ok)
         => LET data == Last(responses').data
            IN \E c \in Crawlers :
                 /\ pc[c] = "absent" /\ pc'[c] = "idle"
                 /\ start_url'[c] = data.url
                 /\ config'[c] =
                       [max_depth |->
                           int(Get(data, "max_depth",
                                   [type |-> "int", value |-> 2])).value,
                        allowed_domains |-> Get(data, "domains", {}),
                        blacklist |-> Get(data, "blacklist", DefaultBlacklist)]
                 /\ stats'[c] = CrawlStats /\ visited'[c] = {}
                 /\ fetched'[c] = <<>> /\ dequeued'[c] = <<>>
                 /\ \A d \in Crawlers \ {c} :
                       /\ pc'[d] = pc[d] /\ queue'[d] = queue[d]
                       /\ stats'[d] = stats[d] /\ visited'[d] = visited[d]]_vars

\* a request was acknowledged and its crawl is running, with an item still
\* on its queue and a page already fetched
C12_Witness ==
    \E c \in Crawlers :
        /\ Acknowledged # {}
        /\ pc[c] = "running"
        /\ queue[c] # <<>>
        /\ fetched[c] # <<>>
        /\ config[c].allowed_domains = {EXAMPLE_COM}

\* C13: a URL whose extension is in the blacklist is never fetched and never
\* recorded, also when its domain is allowed; a crawl of the seed
\* http://example.com/file.PNG with example.com allowed and ".png"
\* blacklisted ends without a fetch and with total_urls = 0.
C13_BlacklistedIsSkipped ==
    \A c \in Crawlers :
        /\ \A i \in DOMAIN dequeued[c] :
              (dequeued[c][i].how # "dropped"
                    /\ is_blacklisted(config[c], dequeued[c][i].url))
                 => /\ dequeued[c][i].how = "skipped"
                    /\ dequeued[c][i].url \notin Range(fetched[c])
                    /\ RecordsOf(c, dequeued[c][i].url) = {}
        /\ (pc[c] = "done" /\ start_url[c] = FILE_PNG
                /\ config[c].allowed_domains = {EXAMPLE_COM}
                /\ DOT_PNG \in config[c].blacklist)
              => fetched[c] = <<>> /\ stats[c].total_urls = 0

\* C14: with a non-empty allowed_domains no URL of a host outside it is
\* fetched or recorded, whatever its extension, and a crawl whose seed is of
\* such a host ends without a fetch and with total_urls = 0.
C14_OnlyAllowedDomains ==
    \A c \in Crawlers :
        config[c].allowed_domains # {} =>
            /\ \A i \in DOMAIN fetched[c] :
                  urlparse(fetched[c][i]).netloc \in config[c].allowed_domains
            /\ \A i \in DOMAIN stats[c].results :
                  urlparse(stats[c].results[i].url).netloc
                     \in config[c].allowed_domains
            /\ (pc[c] = "done"
                    /\ urlparse(start_url[c]).netloc
                          \notin config[c].allowed_domains)
                  => fetched[c] = <<>> /\ stats[c].total_urls = 0

\* C15: a URL that was popped, admitted and not skipped while the cache
\* holds a record of it is not fetched, and the results hold one record of
\* the URL with the status, size and title of the cached record (no step
\* writes the cache).
C15_CacheHit ==
    \A c \in Crawlers : \A i \in Processed(c) :
        LET url == dequeued[c][i].url
        IN url \in DOMAIN cache =>
              /\ url \notin Range(fetched[c])
              /\ \E j \in DOMAIN stats[c].results :
                    /\ RecordsOf(c, url) = {j}
                    /\ stats[c].results[j].status = cache[url].status
                    /\ stats[c].results[j].size = cache[url].size
                    /\ stats[c].results[j].title = cache[url].title

\* C16: whenever crawl(start_url) is about to be entered the stats are
\* empty and the visited set holds nothing, also at a second call on the
\* same crawler, so that what the call returns are the records of the URLs
\* the call itself fetched.
C16_StatsEmptyAtCrawlStart ==
    \A c \in Crawlers :
        /\ pc[c] = "idle" => stats[c] = CrawlStats /\ visited[c] = {}
        /\ pc[c] = "done" =>
              \A i \in DOMAIN stats[c].results :
                 \E j \in DOMAIN dequeued[c] :
                    /\ dequeued[c][j].url = stats[c].results[i].url
                    /\ dequeued[c][j].how \notin {"dropped", "skipped"}
                    /\ Cardinality({k \in 1..j : dequeued[c][k].depth = 0})
                          = Calls(c)

\* the URLs crawler c can reach: the seed, and every http(s) URL a link
\* resolves to on a page that was fetched with status 200 at a depth below
\* max_depth
Reachable(c) ==
    {start_url[c]} \cup
    UNION {{urljoin(dequeued[c][i].url, dequeued[c][i].hrefs[k]) :
               k \in {k \in DOMAIN dequeued[c][i].hrefs :
                        LET u == urljoin(dequeued[c][i].url,
                                         dequeued[c][i].hrefs[k])
                        IN u # ValueError /\ startswith_http(u)}} :
             i \in {i \in Processed(c) :
                      /\ dequeued[c][i].status = 200
                      /\ dequeued[c][i].depth < config[c].max_depth}}

\* C17: when a crawl has ended and no fetch and no broadcast of it raised,
\* every reachable URL that the filter does not skip has a record, and
\* total_urls is the number of these URLs: 1 + n for a seed at max_depth = 1
\* whose page links to n other URLs.
C17_EveryReachableUrlRecorded ==
    \A c \in Crawlers :
        (/\ pc[c] = "done"
         /\ \A i \in DOMAIN dequeued[c] :
               dequeued[c][i].how \notin {"fetch_raised", "broadcast_raised"})
        => LET due == {u \in Reachable(c) : ~Skipped(config[c], u)}
           IN /\ \A u \in due : RecordsOf(c, u) # {}
              /\ stats[c].total_urls = Cardinality(due)

\* C18: the items are popped in the order in which they were put on the
\* queue; the depths of the fetched items, and so of the records, never
\* decrease; and a URL is fetched at the smallest depth at which it is ever
\* put on the queue.
C18_FifoOrder ==
    \A c \in Crawlers :
        /\ Len(dequeued[c]) <= Len(enqueued[c])
        /\ \A i \in DOMAIN dequeued[c] :
              /\ dequeued[c][i].url = enqueued[c][i].url
              /\ dequeued[c][i].depth = enqueued[c][i].depth
        /\ pc[c] # "idle" =>
              queue[c] = SubSeq(enqueued[c], Len(dequeued[c]) + 1,
                                Len(enqueued[c]))
        /\ \A i, j \in Processed(c) :
              i < j => dequeued[c][i].depth <= dequeued[c][j].depth
        /\ \A i \in Processed(c) : \A j \in DOMAIN enqueued[c] :
              enqueued[c][j].url = dequeued[c][i].url
                 => dequeued[c][i].depth <= enqueued[c][j].depth

\* a URL was put on the queue at depth 1 and again at depth 2 and fetched at
\* depth 1, and the run went on to fetch a URL of depth 2
C18_Witness ==
    \E c \in Crawlers : \E i, k \in Processed(c) :
        /\ dequeued[c][i].depth = 1
        /\ \E j \in DOMAIN enqueued[c] :
              /\ enqueued[c][j].url = dequeued[c][i].url
              /\ enqueued[c][j].depth = 2
        /\ dequeued[c][k].depth = 2
        /\ \E d \in DOMAIN dequeued[c] :
              dequeued[c][d].how = "dropped" /\ dequeued[c][d].depth = 2

RECURSIVE StatsAfter(_, _)
\* the stats as they were right after the n-th record of results was made
StatsAfter(results, n) ==
    IF n = 0 THEN CrawlStats
    ELSE record(StatsAfter(results, n - 1), results[n].url, results[n].status,
                results[n].size, results[n].title)

\* the broadcast_stats calls of crawler c in which group_send raised: the
\* one of line 199 for every item logged as such, and the one of the except
\* clause when it ended the crawl
FailedSends(c) ==
    Cardinality({i \in DOMAIN dequeued[c] :
                    dequeued[c][i].how = "broadcast_raised"})
    + (IF pc[c] = "raised" THEN 1 ELSE 0)

\* the messages of the group carry, one after another, the stats as they
\* were right after the records that were made, no record twice
MessagesFollowRecords(c) ==
    /\ \A m \in DOMAIN group :
          LET n == group[m].stats_data.total_urls
          IN /\ n \in 1..Len(stats[c].results)
             /\ group[m] = StatsMessage(StatsAfter(stats[c].results, n))
    /\ \A m, n \in DOMAIN group :
          m < n => group[m].stats_data.total_urls
                      < group[n].stats_data.total_urls

\* C19 as stated: between two pops every record that was made has been
\* followed by exactly one message to the group, which carries the stats as
\* they were right after that record, and dropped and skipped items add none.
C19_OnePublishPerRecord ==
    \A c \in Crawlers :
        pc[c] # "absent" =>
            /\ Len(group) = Len(stats[c].results)
            /\ MessagesFollowRecords(c)

\* C19, amended: every record is followed by one call of broadcast_stats;
\* the call sends one message, carrying the stats as they were right after
\* that record, when a channel layer is configured and group_send does not
\* raise, and no message otherwise; dropped and skipped items add none.
C19_PublishFollowsRecord ==
    \A c \in Crawlers :
        pc[c] # "absent" =>
            /\ channel_layer = None => group = <<>>
            /\ channel_layer # None =>
                  Len(group) = Len(stats[c].results) - FailedSends(c)
            /\ MessagesFollowRecords(c)

\* with a channel layer a run that ended had one send fail and two succeed,
\* and popped an item it dropped or skipped
C19_Witness ==
    \E c \in Crawlers :
        /\ pc[c] = "done"
        /\ channel_layer # None
        /\ FailedSends(c) = 1
        /\ Len(group) >= 2
        /\ \E i \in DOMAIN dequeued[c] :
              dequeued[c][i].how \in {"dropped", "skipped"}

\* C20: the iteration that pops an admitted URL which the filter skips
\* leaves the stats as they are, fetches nothing, sends nothing to the group
\* and puts nothing on the queue, and the URL is in the visited set after it;
\* a URL that was skipped has no fetch and no record at any later point.
C20_SkipLeavesStatsAlone ==
    [][\A c \in Crawlers :
          /\ (/\ Pops(c)
              /\ Admitted(visited[c], config[c], Head(queue[c]))
              /\ Skipped(config[c], Head(queue[c]).url))
             => /\ stats'[c] = stats[c]
                /\ fetched'[c] = fetched[c]
                /\ group' = group
                /\ enqueued'[c] = enqueued[c]
                /\ queue'[c] = Tail(queue[c])
                /\ visited'[c] = visited[c] \cup {Head(queue[c]).url}
                /\ pc'[c] = "running"
          /\ \A i \in DOMAIN dequeued'[c] :
                dequeued'[c][i].how = "skipped"
                   => /\ dequeued'[c][i].url \notin Range(fetched'[c])
                      /\ \A r \in DOMAIN stats'[c].results :
                            stats'[c].results[r].url # dequeued'[c][i].url]_vars

\* a URL was skipped, put on the queue a second time, popped again within
\* max_depth and dropped, in a run that fetched and recorded other URLs
C20_Witness ==
    \E c \in Crawlers : \E i, j \in DOMAIN dequeued[c] :
        /\ i < j
        /\ dequeued[c][i].how = "skipped"
        /\ dequeued[c][j].how = "dropped"
        /\ dequeued[c][j].url = dequeued[c][i].url
        /\ dequeued[c][j].depth <= config[c].max_depth
        /\ stats[c].total_urls >= 3
        /\ pc[c] = "done"

\* the counts of d are all in e, none smaller
CountsGrow(d, e) ==
    \A k \in DOMAIN d : k \in DOMAIN e /\ d[k] <= e[k]

\* C21: no step of a crawl run removes a URL from the visited set, lowers
\* total_urls, errors or a count of status_code_counts or domain_counts, or
\* does anything to results but append: the records it held stay as they
\* were, in their places.
C21_Monotone ==
    [][\A c \in Crawlers :
          /\ visited[c] \subseteq visited'[c]
          /\ stats[c].total_urls <= stats'[c].total_urls
          /\ stats[c].errors <= stats'[c].errors
          /\ CountsGrow(stats[c].status_code_counts,
                        stats'[c].status_code_counts)
          /\ CountsGrow(stats[c].domain_counts, stats'[c].domain_counts)
          /\ Len(stats[c].results) <= Len(stats'[c].results)
          /\ SubSeq(stats'[c].results, 1, Len(stats[c].results))
                = stats[c].results]_vars

\* a run made four records, three of them under one status code and one an
\* error, and visited three URLs
C21_Witness ==
    \E c \in Crawlers :
        /\ pc[c] = "done"
        /\ Len(stats[c].results) = 4
        /\ stats[c].errors >= 1
        /\ \E k \in DOMAIN stats[c].status_code_counts :
              stats[c].status_code_counts[k] = 3
        /\ \E k \in DOMAIN stats[c].domain_counts :
              stats[c].domain_counts[k] >= 3
        /\ Cardinality(visited[c]) = 3

Own(c) == <<pc[c], queue[c], visited[c], stats[c], config[c], start_url[c]>>

RECURSIVE RecordsFrom(_, _)
\* the URL and status of the records a crawl makes for the first n items
\* of log, given how each of them went
RecordsFrom(log, n) ==
    IF n = 0 THEN <<>>
    ELSE LET e == log[n]
             first == [url |-> e.url, status |-> e.status]
             failed == [url |-> e.url, status |-> 0]
         IN RecordsFrom(log, n - 1) \o
            (CASE e.how \in {"dropped", "skipped"} -> <<>>
               [] e.how = "responded" -> <<first>>
               [] e.how = "fetch_raised" -> <<failed>>
               [] OTHER -> <<first, failed>>)

RECURSIVE LinksFrom(_, _, _)
\* the items a crawl with config cfg puts on the queue for the first n
\* items of log, given the responses it received for them
LinksFrom(cfg, log, n) ==
    IF n = 0 THEN <<>>
    ELSE LET e == log[n]
         IN LinksFrom(cfg, log, n - 1) \o
            (IF e.how \in {"responded", "urljoin_raised"}
                  /\ FollowsLinks(cfg, e.depth, e.status)
             THEN ExtractLinks(e.url, e.hrefs, e.depth, 1).items
             ELSE <<>>)

\* the state of crawler c is the one a crawl running alone has after the
\* same responses: what it dropped, skipped, recorded, visited and put on
\* its queue follows from its own config, its own seed and its own log
RunsAsAlone(c) ==
    LET log == dequeued[c]
        seen(i) == {log[k].url : k \in {k \in 1..(i - 1) :
                                           log[k].how # "dropped"}}
    IN /\ \A i \in DOMAIN log :
             /\ log[i].how = "dropped"
                   <=> ~Admitted(seen(i), config[c],
                                 [url |-> log[i].url, depth |-> log[i].depth])
             /\ log[i].how = "skipped"
                   <=> /\ log[i].how # "dropped"
                       /\ Skipped(config[c], log[i].url)
       /\ visited[c] = seen(Len(log) + 1)
       /\ [i \in DOMAIN stats[c].results |->
              [url |-> stats[c].results[i].url,
               status |-> stats[c].results[i].status]]
             = RecordsFrom(log, Len(log))
       /\ stats[c] = StatsAfter(stats[c].results, Len(stats[c].results))
       /\ pc[c] # "idle" =>
             /\ enqueued[c] = <<[url |-> start_url[c], depth |-> 0]>>
                                 \o LinksFrom(config[c], log, Len(log))
             /\ queue[c] = SubSeq(enqueued[c], Len(log) + 1, Len(enqueued[c]))

\* C23: two crawls that run at the same time share no queue, visited set or
\* stats: a step changes what one crawler holds and nothing of the other,
\* each crawler is, under every interleaving, in the state it would be in
\* after the same responses had it run alone, and what the two share is the
\* group, every message of which carries stats of one of them.
C23_CrawlsAreIndependent ==
    /\ [][\A c \in Pair : \A d \in Pair \ {c} :
             Own(c)' # Own(c) => Own(d)' = Own(d)]_vars
    /\ [](\A c \in Pair : RunsAsAlone(c))
    /\ [](\A m \in DOMAIN group :
             \E c \in Pair :
                LET n == group[m].stats_data.total_urls
                IN /\ n \in 1..Len(stats[c].results)
                   /\ group[m] = StatsMessage(StatsAfter(stats[c].results, n)))

\* both crawls have returned, each with a record of the seed they share, and
\* the group holds a message of the second between messages of the first
C23_Witness ==
    /\ DOMAIN pc = Pair
    /\ \A c \in Pair : pc[c] = "done" /\ start_url[c] \in Range(fetched[c])
    /\ stats[1].total_urls >= 3
    /\ stats[2].total_urls = 1
    /\ \E l, m, n \in DOMAIN group :
          /\ l < m /\ m < n
          /\ group[m] = StatsMessage(stats[2])
          /\ group[l] # StatsMessage(stats[2])
          /\ group[n] = StatsMessage(stats[1])

=============================================================================
